---- MODULE Spec2Model ----
(***************************************************************************)
(* DTLS handshake extension codec (dtls/src/extension.rs and the           *)
(* ServerName / UseExtendedMasterSecret payload codecs).                   *)
(*                                                                         *)
(* A byte is a number in 0..255, a byte string is a sequence of bytes.  A  *)
(* Rust String is represented by its UTF-8 bytes: as_bytes() exposes them, *)
(* String::from_utf8 validates a byte vector and keeps exactly its bytes.  *)
(* A reader is a byte string plus the number of bytes already consumed.    *)
(***************************************************************************)
EXTENDS Integers, Sequences, FiniteSets, TLC

VARIABLES
    stream,     \* the bytes of the shared stream (what the writer holds / the reader reads)
    sent,       \* the Extension values marshalled onto the stream, in order
    rpos,       \* number of bytes of the stream the reader has consumed
    start,      \* reader position at the start of the last unmarshal call
    result,     \* the Result returned by the last unmarshal call
    received,   \* the Extension values returned by successful unmarshal calls
    id,         \* registry: the ExtensionValue being converted
    tag,        \* registry: the u16 produced by `id as u16`
    back        \* registry: the ExtensionValue produced by From<u16> on tag

vars == <<stream, sent, rpos, start, result, received, id, tag, back>>

----------------------------------------------------------------------------
(* Bounds of the model *)

MaxNameLen == 3     \* longest server name drawn from NameBytes
MaxOver == 1        \* oversize names have 65536 .. 65536 + MaxOver bytes
MaxExts == 2        \* extensions marshalled onto one stream
MaxField == 3       \* largest small value of a length field in a decoded stream
MaxBody == 3        \* most bytes after the length field in a decoded stream
MaxJunk == 2        \* most bytes after an arbitrary tag in a decoded stream

(* Widths of the wire integers *)

ByteMod == 256
U16Mod == 65536

SeqsUpTo(S, n) == UNION {[1 .. k -> S] : k \in 0 .. n}

----------------------------------------------------------------------------
(* Extension registry: enum ExtensionValue and From<u16> *)

KnownExtensionValues ==
    {"ServerName", "SupportedEllipticCurves", "SupportedPointFormats",
     "SupportedSignatureAlgorithms", "UseSRTP", "UseExtendedMasterSecret"}

ExtensionValue == KnownExtensionValues \cup {"Unsupported"}

\* faulty variant: UseSRTP given the discriminant 15
ExtensionValue_as_u16_shifted(ev) ==
    CASE ev = "ServerName" -> 0
      [] ev = "SupportedEllipticCurves" -> 10
      [] ev = "SupportedPointFormats" -> 11
      [] ev = "SupportedSignatureAlgorithms" -> 13
      [] ev = "UseSRTP" -> 15
      [] ev = "UseExtendedMasterSecret" -> 23
      [] ev = "Unsupported" -> 24

\* `ev as u16`: the enum discriminants
ExtensionValue_as_u16(ev) ==
    CASE ev = "ServerName" -> 0
      [] ev = "SupportedEllipticCurves" -> 10
      [] ev = "SupportedPointFormats" -> 11
      [] ev = "SupportedSignatureAlgorithms" -> 13
      [] ev = "UseSRTP" -> 14
      [] ev = "UseExtendedMasterSecret" -> 23
      [] ev = "Unsupported" -> 24

\* faulty variant: the UseExtendedMasterSecret arm matches 24 instead of 23
From_u16_24(val) ==
    CASE val = 0 -> "ServerName"
      [] val = 10 -> "SupportedEllipticCurves"
      [] val = 11 -> "SupportedPointFormats"
      [] val = 13 -> "SupportedSignatureAlgorithms"
      [] val = 14 -> "UseSRTP"
      [] val = 24 -> "UseExtendedMasterSecret"
      [] OTHER -> "Unsupported"

\* impl From<u16> for ExtensionValue
From_u16(val) ==
    CASE val = 0 -> "ServerName"
      [] val = 10 -> "SupportedEllipticCurves"
      [] val = 11 -> "SupportedPointFormats"
      [] val = 13 -> "SupportedSignatureAlgorithms"
      [] val = 14 -> "UseSRTP"
      [] val = 23 -> "UseExtendedMasterSecret"
      [] OTHER -> "Unsupported"

----------------------------------------------------------------------------
(* Extension values *)

ServerName(name) == [kind |-> "ServerName", server_name |-> name]

UseExtendedMasterSecret(b) == [kind |-> "UseExtendedMasterSecret", supported |-> b]

\* Extension::extension_value, through the payload's extension_value
extension_value(ext) ==
    CASE ext.kind = "ServerName" -> "ServerName"
      [] ext.kind = "UseExtendedMasterSecret" -> "UseExtendedMasterSecret"

----------------------------------------------------------------------------
(* Writing *)

\* `n as u16`
as_u16(n) == n % U16Mod

\* writer.write_u16::<BigEndian>(n), n a u16: the two bytes appended
write_u16(n) == <<n \div ByteMod, n % ByteMod>>

\* faulty variant: the name-type byte of the commented-out write_u8 is written
ExtensionServerName_marshal_name_type(ext) ==
    <<0>> \o write_u16(as_u16(Len(ext.server_name))) \o ext.server_name

\* ExtensionServerName::marshal: the bytes appended to the writer
ExtensionServerName_marshal(ext) ==
    write_u16(as_u16(Len(ext.server_name))) \o ext.server_name

\* faulty variant: `supported` is written as a one-byte payload
ExtensionUseExtendedMasterSecret_marshal_flag(ext) ==
    write_u16(1) \o <<IF ext.supported THEN 1 ELSE 0>>

\* ExtensionUseExtendedMasterSecret::marshal: the bytes appended to the writer
ExtensionUseExtendedMasterSecret_marshal(ext) == write_u16(0)

\* Extension::marshal: the bytes appended to the writer
Extension_marshal(ext) ==
    write_u16(ExtensionValue_as_u16(extension_value(ext)))
        \o (CASE ext.kind = "ServerName" -> ExtensionServerName_marshal(ext)
              [] ext.kind = "UseExtendedMasterSecret" ->
                    ExtensionUseExtendedMasterSecret_marshal(ext))

----------------------------------------------------------------------------
(* Reading.  Every read returns a record: ok, the reader position after    *)
(* the read, and what was read.  A failed read (the stream ends too early) *)
(* reports eof; how far the reader has moved then is not specified by      *)
(* Read::read_exact and is chosen in the Unmarshal action.                 *)

\* faulty variant: read_u16::<LittleEndian>
read_u16_le(buf, pos) ==
    IF pos + 2 <= Len(buf)
    THEN [ok |-> TRUE, val |-> buf[pos + 1] + buf[pos + 2] * ByteMod, pos |-> pos + 2]
    ELSE [ok |-> FALSE, pos |-> pos]

\* reader.read_u16::<BigEndian>()
read_u16(buf, pos) ==
    IF pos + 2 <= Len(buf)
    THEN [ok |-> TRUE, val |-> buf[pos + 1] * ByteMod + buf[pos + 2], pos |-> pos + 2]
    ELSE [ok |-> FALSE, pos |-> pos]

\* faulty variant: reader.read(&mut buf), which fills what the stream still
\* has and leaves the rest of the zeroed buffer untouched
read_exact_partial(buf, pos, n) ==
    LET got == IF pos + n <= Len(buf) THEN n ELSE Len(buf) - pos
    IN  [ok |-> TRUE,
         bytes |-> [i \in 1 .. n |-> IF i <= got THEN buf[pos + i] ELSE 0],
         pos |-> pos + got]

\* let mut buf = vec![0u8; n]; reader.read_exact(&mut buf)
read_exact(buf, pos, n) ==
    IF pos + n <= Len(buf)
    THEN [ok |-> TRUE, bytes |-> SubSeq(buf, pos + 1, pos + n), pos |-> pos + n]
    ELSE [ok |-> FALSE, pos |-> pos]

IsCont(b) == b \in 128 .. 191

\* String::from_utf8(buf).is_ok(): the well-formed UTF-8 byte sequences
RECURSIVE Utf8ValidFrom(_, _)
Utf8ValidFrom(s, i) ==
    IF i > Len(s) THEN TRUE
    ELSE LET b == s[i]
             n == Len(s)
         IN  IF b < 128 THEN Utf8ValidFrom(s, i + 1)
             ELSE IF b \in 194 .. 223
                  THEN i + 1 <= n /\ IsCont(s[i + 1]) /\ Utf8ValidFrom(s, i + 2)
             ELSE IF b \in 224 .. 239
                  THEN /\ i + 2 <= n
                       /\ s[i + 1] \in (CASE b = 224 -> 160 .. 191
                                          [] b = 237 -> 128 .. 159
                                          [] OTHER -> 128 .. 191)
                       /\ IsCont(s[i + 2])
                       /\ Utf8ValidFrom(s, i + 3)
             ELSE IF b \in 240 .. 244
                  THEN /\ i + 3 <= n
                       /\ s[i + 1] \in (CASE b = 240 -> 144 .. 191
                                          [] b = 244 -> 128 .. 143
                                          [] OTHER -> 128 .. 191)
                       /\ IsCont(s[i + 2])
                       /\ IsCont(s[i + 3])
                       /\ Utf8ValidFrom(s, i + 4)
             ELSE FALSE

\* faulty variant: no validation (from_utf8_unchecked)
from_utf8_ok_unchecked(s) == TRUE

from_utf8_ok(s) == Utf8ValidFrom(s, 1)

Ok(v, pos) == [status |-> "Ok", value |-> v, pos |-> pos, eof |-> FALSE]

Err(e, pos) == [status |-> "Err", err |-> e, pos |-> pos, eof |-> e = "UnexpectedEof"]

\* faulty variant: the name-type byte of the commented-out read_u8 is read
ExtensionServerName_unmarshal_name_type(buf, pos) ==
    LET name_type == read_exact(buf, pos, 1)
    IN  IF ~name_type.ok THEN Err("UnexpectedEof", name_type.pos)
        ELSE IF name_type.bytes[1] # 0 THEN Err("InvalidSniFormat", name_type.pos)
        ELSE LET len == read_u16(buf, name_type.pos)
             IN  IF ~len.ok THEN Err("UnexpectedEof", len.pos)
                 ELSE LET body == read_exact(buf, len.pos, len.val)
                      IN  IF ~body.ok THEN Err("UnexpectedEof", body.pos)
                          ELSE IF ~from_utf8_ok(body.bytes)
                               THEN Err("FromUtf8Error", body.pos)
                          ELSE Ok(ServerName(body.bytes), body.pos)

\* ExtensionServerName::unmarshal
ExtensionServerName_unmarshal(buf, pos) ==
    LET len == read_u16(buf, pos)
    IN  IF ~len.ok THEN Err("UnexpectedEof", len.pos)
        ELSE LET body == read_exact(buf, len.pos, len.val)
             IN  IF ~body.ok THEN Err("UnexpectedEof", body.pos)
                 ELSE IF ~from_utf8_ok(body.bytes) THEN Err("FromUtf8Error", body.pos)
                 ELSE Ok(ServerName(body.bytes), body.pos)

\* faulty variant: `supported` taken from the length field
ExtensionUseExtendedMasterSecret_unmarshal_len(buf, pos) ==
    LET len == read_u16(buf, pos)
    IN  IF ~len.ok THEN Err("UnexpectedEof", len.pos)
        ELSE Ok(UseExtendedMasterSecret(len.val # 0), len.pos)

\* ExtensionUseExtendedMasterSecret::unmarshal
ExtensionUseExtendedMasterSecret_unmarshal(buf, pos) ==
    LET len == read_u16(buf, pos)
    IN  IF ~len.ok THEN Err("UnexpectedEof", len.pos)
        ELSE Ok(UseExtendedMasterSecret(TRUE), len.pos)

\* Extension::unmarshal.  The codecs of the four other known extension
\* types are outside this model; streams that start with their tags are
\* never drawn.
Extension_unmarshal(buf, pos) ==
    LET t == read_u16(buf, pos)
    IN  IF ~t.ok THEN Err("UnexpectedEof", t.pos)
        ELSE LET extension_value_ == From_u16(t.val)
             IN  CASE extension_value_ = "ServerName" ->
                        ExtensionServerName_unmarshal(buf, t.pos)
                   [] extension_value_ = "UseExtendedMasterSecret" ->
                        ExtensionUseExtendedMasterSecret_unmarshal(buf, t.pos)
                   [] extension_value_ = "Unsupported" ->
                        Err("InvalidExtensionType", t.pos)

----------------------------------------------------------------------------
(* Inputs *)

NameBytes == {46, 97, 195, 169}     \* '.', 'a', and the two bytes of U+00E9

\* "example.com"
ExampleCom == <<101, 120, 97, 109, 112, 108, 101, 46, 99, 111, 109>>

\* Strings: valid UTF-8 by construction
ShortNames == {s \in SeqsUpTo(NameBytes, MaxNameLen) : from_utf8_ok(s)} \cup {ExampleCom}

\* Strings of 65536 bytes or more
LongNames == {[i \in 1 .. (U16Mod + k) |-> 97] : k \in 0 .. MaxOver}

StreamValues == {ServerName(s) : s \in ShortNames} \cup {UseExtendedMasterSecret(TRUE)}

\* Incoming byte streams to decode.  BigEndian(n) is the wire form of a u16.
BigEndian(n) == <<n \div 256, n % 256>>

ModelledTags == {0, 23}
ExternalTags == {10, 11, 13, 14}    \* codecs outside this model
UnknownTags == (0 .. (U16Mod - 1)) \ (ModelledTags \cup ExternalTags)

BodyBytes == {0, 97, 195, 169, 255}
JunkBytes == {0}
FieldValues == (0 .. MaxField) \cup {256, U16Mod - 1}

\* a known tag, a length field, and some bytes (fewer, as many or more than announced)
FramedStreams ==
    {BigEndian(t) \o BigEndian(l) \o b :
        t \in ModelledTags, l \in FieldValues, b \in SeqsUpTo(BodyBytes, MaxBody)}

\* streams that end inside the tag or the length field
TruncatedStreams ==
    {SubSeq(BigEndian(t) \o BigEndian(l), 1, n) :
        t \in ModelledTags, l \in FieldValues, n \in 0 .. 3}

\* an unrecognized tag followed by anything
UnknownTagStreams ==
    {BigEndian(t) \o j : t \in UnknownTags, j \in SeqsUpTo(JunkBytes, MaxJunk)}

Streams == FramedStreams \cup TruncatedStreams \cup UnknownTagStreams

NoResult == [status |-> "None"]
NoTag == U16Mod      \* not a u16: no tag computed yet
NoId == "None"

----------------------------------------------------------------------------
(* Operations *)

\* ext.marshal(&mut writer) on the shared stream
Marshal(ext) ==
    /\ Len(sent) < MaxExts
    /\ stream' = stream \o Extension_marshal(ext)
    /\ sent' = Append(sent, ext)
    /\ UNCHANGED <<rpos, start, result, received, id, tag, back>>

\* Extension::unmarshal(&mut reader) on the shared stream; a caller stops
\* at the first error
Unmarshal ==
    /\ result.status # "Err"
    /\ LET r == Extension_unmarshal(stream, rpos)
       IN  /\ start' = rpos
           /\ result' = IF r.status = "Ok"
                        THEN [status |-> "Ok", value |-> r.value]
                        ELSE [status |-> "Err", err |-> r.err]
           /\ received' = IF r.status = "Ok" THEN Append(received, r.value) ELSE received
           /\ rpos' \in (IF r.eof THEN {r.pos, Len(stream)} ELSE {r.pos})
    /\ UNCHANGED <<stream, sent, id, tag, back>>

\* wire_tag_of: `id as u16`
WireTagOf ==
    /\ tag = NoTag
    /\ tag' = ExtensionValue_as_u16(id)
    /\ UNCHANGED <<stream, sent, rpos, start, result, received, id, back>>

\* identity_of: ExtensionValue::from(tag)
IdentityOf ==
    /\ tag # NoTag
    /\ back = NoId
    /\ back' = From_u16(tag)
    /\ UNCHANGED <<stream, sent, rpos, start, result, received, id, tag>>

----------------------------------------------------------------------------
(* Specifications *)

InitReader ==
    /\ rpos = 0
    /\ start = 0
    /\ result = NoResult
    /\ received = <<>>

InitRegistryIdle ==
    /\ id = "ServerName"
    /\ tag = NoTag
    /\ back = NoId

\* Several extensions marshalled onto one stream and read back from it
Init ==
    /\ stream = <<>>
    /\ sent = <<>>
    /\ InitReader
    /\ InitRegistryIdle

Next ==
    \/ \E ext \in StreamValues : Marshal(ext)
    \/ Unmarshal

Spec == Init /\ [][Next]_vars

\* One Extension value, any constructible one, marshalled and read back;
\* and the registry conversions of one known identity
InitRoundTrip ==
    /\ stream = <<>>
    /\ sent = <<>>
    /\ InitReader
    /\ id \in KnownExtensionValues
    /\ tag = NoTag
    /\ back = NoId

NextRoundTrip ==
    \/ \E b \in BOOLEAN : sent = <<>> /\ Marshal(UseExtendedMasterSecret(b))
    \/ \E s \in ShortNames \cup LongNames : sent = <<>> /\ Marshal(ServerName(s))
    \/ sent # <<>> /\ Unmarshal
    \/ WireTagOf
    \/ IdentityOf

SpecRoundTrip == InitRoundTrip /\ [][NextRoundTrip]_vars

\* Decoding an arbitrary incoming byte stream
InitDecode ==
    /\ stream \in Streams
    /\ sent = <<>>
    /\ InitReader
    /\ InitRegistryIdle

NextDecode == Unmarshal

SpecDecode == InitDecode /\ [][NextDecode]_vars

----------------------------------------------------------------------------
(* Reference notions used by the properties, independent of the codec *)

\* the u16 held big-endian in the two bytes of s after position p
U16At(s, p) == s[p + 1] * 256 + s[p + 2]

\* the last unmarshal call found a whole tag, and a whole length field
CallHasTag == result.status # "None" /\ start + 2 <= Len(stream)
CallHasField == CallHasTag /\ start + 4 <= Len(stream)
CallTag == U16At(stream, start)
CallField == U16At(stream, start + 2)
CallHasBody == CallHasField /\ start + 4 + CallField <= Len(stream)
CallBody == SubSeq(stream, start + 5, start + 4 + CallField)

\* UTF-8 encoding of a scalar value below U+0800
Utf8Encode(cp) ==
    IF cp < 128 THEN <<cp>> ELSE <<192 + (cp \div 64), 128 + (cp % 64)>>

IsPrefixAt(u, s, i) ==
    /\ i + Len(u) - 1 <= Len(s)
    /\ \A k \in 1 .. Len(u) : s[i + k - 1] = u[k]

\* s from index i on is a concatenation of encoded scalar values below
\* U+0800.  For strings without the lead bytes E0..F4 of longer encodings
\* (none is in BodyBytes or NameBytes) this is well-formedness.
RECURSIVE WellFormedFrom(_, _)
WellFormedFrom(s, i) ==
    \/ i > Len(s)
    \/ \E cp \in 0 .. 2047 :
          /\ IsPrefixAt(Utf8Encode(cp), s, i)
          /\ WellFormedFrom(s, i + Len(Utf8Encode(cp)))

WellFormed(s) == WellFormedFrom(s, 1)

WireTags == {0, 10, 11, 13, 14, 23}

----------------------------------------------------------------------------
(* Properties *)

\* C1 (as stated): for every constructible Extension value v, the first
\* unmarshal of the bytes written by marshal(v) succeeds and returns v.
C1_RoundTripEveryValue ==
    (Len(sent) = 1 /\ result.status # "None" /\ start = 0)
        => result = [status |-> "Ok", value |-> sent[1]]

IsWireFaithful(v) ==
    \/ v.kind = "ServerName" /\ Len(v.server_name) < 65536
    \/ v.kind = "UseExtendedMasterSecret" /\ v.supported

\* C1 (amended): the round trip returns v for every ServerName whose name is
\* shorter than 65536 bytes and for UseExtendedMasterSecret with supported =
\* true; for UseExtendedMasterSecret with supported = false it succeeds and
\* returns supported = true.
C1_RoundTrip ==
    (Len(sent) = 1 /\ result.status # "None" /\ start = 0)
        => /\ IsWireFaithful(sent[1]) => result = [status |-> "Ok", value |-> sent[1]]
           /\ sent[1].kind = "UseExtendedMasterSecret"
                => result = [status |-> "Ok", value |-> UseExtendedMasterSecret(TRUE)]

C1_Witness ==
    /\ sent = <<ServerName(ExampleCom)>>
    /\ start = 0
    /\ result = [status |-> "Ok", value |-> ServerName(ExampleCom)]
    /\ rpos = 15

\* C2: a call that reads a tag outside {0,10,11,13,14,23} fails with
\* InvalidExtensionType, returns no value, and leaves the reader exactly 2
\* bytes past where the call started.
C2_Rejection ==
    (CallHasTag /\ CallTag \notin WireTags)
        => /\ result = [status |-> "Err", err |-> "InvalidExtensionType"]
           /\ rpos = start + 2
           /\ (start = 0 => received = <<>>)

C2_Witness ==
    /\ stream = <<255, 255, 0, 0>>
    /\ result = [status |-> "Err", err |-> "InvalidExtensionType"]
    /\ rpos = 2

\* C3 (as stated): every successful call on tag 0 or 23 consumes 2 + 2 + L
\* bytes, L the length field read, also for a non-zero L after tag 23.
C3_ConsumesLengthField ==
    (CallHasField /\ result.status = "Ok" /\ CallTag \in {0, 23})
        => rpos = start + 4 + CallField

\* C3 (amended): a successful call on tag 0 consumes 2 + 2 + L bytes; a
\* successful call on tag 23 consumes exactly 4 bytes whatever L is.
C3_Consumption ==
    (CallHasField /\ result.status = "Ok")
        => /\ CallTag = 0 => rpos = start + 4 + CallField
           /\ CallTag = 23 => rpos = start + 4

C3_Witness ==
    /\ result.status = "Ok"
    /\ CallTag = 23
    /\ CallField = 3
    /\ Len(stream) = 7
    /\ rpos = start + 4

\* C4: marshal of ServerName writes 00 00, then a big-endian length field
\* equal to the byte length of the name, then the name's bytes, for every
\* name length.
C4_ServerNameLayout ==
    (Len(sent) = 1 /\ sent[1].kind = "ServerName")
        => /\ Len(stream) = 4 + Len(sent[1].server_name)
           /\ U16At(stream, 0) = 0
           /\ U16At(stream, 2) = Len(sent[1].server_name)
           /\ SubSeq(stream, 5, Len(stream)) = sent[1].server_name

\* C5: a call that reads tag 0, a length L and L bytes returns an encoding
\* error and no value when the L bytes are not well-formed UTF-8, and a
\* ServerName holding exactly those bytes when they are.
C5_Utf8Guard ==
    (CallHasBody /\ CallTag = 0)
        => IF WellFormed(CallBody)
           THEN result = [status |-> "Ok", value |-> ServerName(CallBody)]
           ELSE /\ result = [status |-> "Err", err |-> "FromUtf8Error"]
                /\ (start = 0 => received = <<>>)

C5_Witness ==
    /\ stream = <<0, 0, 0, 2, 195, 97>>
    /\ result = [status |-> "Err", err |-> "FromUtf8Error"]
    /\ received = <<>>

\* C6: every successful call on tag 23 returns UseExtendedMasterSecret with
\* supported = true, no call returns supported = false, and decoding
\* 00 17 00 00 consumes exactly 4 bytes.
C6_Presence ==
    /\ (CallHasTag /\ CallTag = 23 /\ result.status = "Ok")
          => result.value = UseExtendedMasterSecret(TRUE)
    /\ \A i \in 1 .. Len(received) :
          received[i].kind = "UseExtendedMasterSecret" => received[i].supported
    /\ (stream = <<0, 23, 0, 0>> /\ result.status # "None" /\ start = 0)
          => result.status = "Ok" /\ rpos = 4

C6_Witness ==
    /\ stream = <<0, 23, 0, 0>>
    /\ result = [status |-> "Ok", value |-> UseExtendedMasterSecret(TRUE)]
    /\ rpos = 4

ExpectedTag ==
    [ServerName |-> 0, SupportedEllipticCurves |-> 10, SupportedPointFormats |-> 11,
     SupportedSignatureAlgorithms |-> 13, UseSRTP |-> 14, UseExtendedMasterSecret |-> 23]

\* C7: for each of the six known identities, `id as u16` is its wire tag
\* (0, 10, 11, 13, 14, 23, pairwise distinct) and From<u16> of that tag is
\* id again.
C7_TagFidelity ==
    /\ tag # NoTag => tag = ExpectedTag[id]
    /\ back # NoId => back = id
    /\ \A a, b \in KnownExtensionValues : a # b => ExpectedTag[a] # ExpectedTag[b]

C7_Witness ==
    /\ id = "UseSRTP"
    /\ tag = 14
    /\ back = "UseSRTP"

\* C8: a call on a stream that ends before the tag, before the length
\* field, or before the L ServerName bytes announced, returns an error and
\* no value.
C8_ShortRead ==
    (/\ result.status # "None"
     /\ \/ ~CallHasTag
        \/ CallTag \in {0, 23} /\ ~CallHasField
        \/ CallTag = 0 /\ ~CallHasBody)
        => /\ result = [status |-> "Err", err |-> "UnexpectedEof"]
           /\ (start = 0 => received = <<>>)

C8_Witness ==
    /\ stream = <<0, 0, 0, 3, 97, 97>>
    /\ start = 0
    /\ result = [status |-> "Err", err |-> "UnexpectedEof"]
    /\ received = <<>>

\* C9: marshal of UseExtendedMasterSecret writes exactly 00 17 00 00, with
\* supported = true and with supported = false alike.
C9_MarshalIgnoresSupported ==
    (Len(sent) = 1 /\ sent[1].kind = "UseExtendedMasterSecret")
        => stream = <<0, 23, 0, 0>>

C9_Witness ==
    /\ sent = <<UseExtendedMasterSecret(FALSE)>>
    /\ stream = <<0, 23, 0, 0>>

\* C10: with values marshalled one after another onto one stream (names
\* shorter than 65536 bytes, supported = true), every unmarshal call made
\* while unread values remain starts where the previous call stopped and
\* returns the next value sent; the values received are always the values
\* sent, in order, and once all are received the reader is at the end of
\* the stream.
C10_Framing ==
    /\ [](/\ Len(received) <= Len(sent)
          /\ received = SubSeq(sent, 1, Len(received))
          /\ (Len(received) = Len(sent) /\ result.status # "Err") => rpos = Len(stream))
    /\ [][(sent' = sent /\ Len(received) < Len(sent))
            => /\ start' = rpos
               /\ result' = [status |-> "Ok", value |-> sent[Len(received) + 1]]
               /\ received' = Append(received, sent[Len(received) + 1])
               /\ rpos' > rpos]_vars

C10_Witness ==
    /\ sent = <<ServerName(<<195, 169>>), UseExtendedMasterSecret(TRUE)>>
    /\ received = sent
    /\ result.status = "Ok"
    /\ start = 6
    /\ rpos = Len(stream)

====
